---- MODULE Spec2Model ----
(***************************************************************************)
(* The K-FAC-pre optimisation loop of examples/kfac_pre.py (function kfac) *)
(* with its bookkeeping helpers, as a state machine.                       *)
(*                                                                         *)
(* Numbers.  numpy works on IEEE doubles; here a number is a fixed-point   *)
(* value <<"fin", v>> standing for v / Scale (products and quotients are   *)
(* rounded toward zero), or one of the special values <<"nan", 0>>,        *)
(* <<"inf", 1>>, <<"inf", -1>>, which follow the IEEE rules numpy applies  *)
(* to arrays (x / 0 is nan or inf with a warning, never an exception;      *)
(* 0 * nan is nan).                                                        *)
(*                                                                         *)
(* Shapes.  Every per-layer matrix (aaT, ggT, A, G, Ainv, Ginv and the     *)
(* stacked weight/bias block) is 1 x 1, so a layer holds one number.       *)
(* With lmbda > 0 and positive semi-definite factors, A + lmbda*I is never *)
(* singular, so np.linalg.inv always returns (nan for a nan factor).       *)
(***************************************************************************)
EXTENDS Integers, Sequences, FiniteSets, Bags, TLC

\* ------------------------------------------------------------- bounds
MaxIters == 8
MaxPeriod == 4
MaxSamples == 2
NumLayers == 2
Scale == 1000

Layers == 1..NumLayers

\* ------------------------------------------------------------- numbers
Fin(v) == <<"fin", v>>
NaN == <<"nan", 0>>
Inf(s) == <<"inf", s>>
IsFin(x) == x[1] = "fin"
IsNaN(x) == x[1] = "nan"
IsInf(x) == x[1] = "inf"

Abs(v) == IF v < 0 THEN -v ELSE v
Sgn(v) == IF v < 0 THEN -1 ELSE IF v = 0 THEN 0 ELSE 1
\* integer quotient rounded toward zero, b # 0
Quot(a, b) == Sgn(a) * Sgn(b) * (Abs(a) \div Abs(b))
\* the sign of a number that is not nan
SignOf(x) == IF IsFin(x) THEN Sgn(x[2]) ELSE x[2]

FromInt(k) == Fin(k * Scale)
Zero == Fin(0)
One == Fin(Scale)

FNeg(x) == IF IsNaN(x) THEN NaN ELSE <<x[1], -x[2]>>

FAdd(x, y) ==
    IF IsNaN(x) \/ IsNaN(y) THEN NaN
    ELSE IF IsFin(x) /\ IsFin(y) THEN Fin(x[2] + y[2])
    ELSE IF IsInf(x) /\ IsInf(y) THEN (IF x[2] = y[2] THEN x ELSE NaN)
    ELSE IF IsInf(x) THEN x ELSE y

FSub(x, y) == FAdd(x, FNeg(y))

FMul(x, y) ==
    IF IsNaN(x) \/ IsNaN(y) THEN NaN
    ELSE IF IsFin(x) /\ IsFin(y) THEN Fin(Quot(x[2] * y[2], Scale))
    ELSE IF SignOf(x) = 0 \/ SignOf(y) = 0 THEN NaN
    ELSE Inf(SignOf(x) * SignOf(y))

FDiv(x, y) ==
    IF IsNaN(x) \/ IsNaN(y) THEN NaN
    ELSE IF IsInf(x) THEN (IF IsInf(y) THEN NaN
                           ELSE Inf(x[2] * (IF y[2] < 0 THEN -1 ELSE 1)))
    ELSE IF IsInf(y) THEN Zero
    ELSE IF y[2] = 0 THEN (IF x[2] = 0 THEN NaN ELSE Inf(Sgn(x[2])))
    ELSE Fin(Quot(x[2] * Scale, y[2]))

\* ------------------------------------------------------------- kfac's arguments
\* mu=0.9 is the default of kfac; lmbda=0.1 the value of the script;
\* step_size is a tenth so that one step moves params by a visible amount.
mu == Fin((9 * Scale) \div 10)
lmbda == Fin(Scale \div 10)
step_size == Fin(Scale \div 10)
EpsVals == {Zero, Fin(Scale \div 20)}

\* init_params: one number per layer
init_params == [l \in Layers |-> [Wb |-> FromInt(IF l % 2 = 1 THEN l ELSE -l)]]

VARIABLES
    num_iters, num_samples, sample_period, reestimate_period,
    update_precond_period, eps, callback,      \* arguments of kfac
    pc,                                        \* position in the loop body
    i,                                         \* loop index: iterations completed
    params, flat_params, momentum,
    stats, factors, precond,
    gradient,
    trace                                      \* the calls made so far, in order

args == <<num_iters, num_samples, sample_period, reestimate_period,
          update_precond_period, eps, callback>>
vars == <<num_iters, num_samples, sample_period, reestimate_period,
          update_precond_period, eps, callback, pc, i, params, flat_params,
          momentum, stats, factors, precond, gradient, trace>>

\* ------------------------------------------------------------- helpers of the source
\* autograd.util.flatten: the list of per-layer blocks as one vector, and back
flatten(p) == [l \in Layers |-> p[l].Wb]
unflatten(v) == [l \in Layers |-> [Wb |-> v[l]]]

\* the training objective: half the squared distance of every layer's block
\* to the datum of batch itr, so that its gradient depends on params and itr
batch_datum(itr) == FromInt((itr % 3) - 1)
objective_grad(p, itr) == [l \in Layers |-> [Wb |-> FSub(p[l].Wb, batch_datum(itr))]]

\* collect_stats: per layer (outer(homog(A)), outer(G), len(A)) over the
\* num_samples rows drawn from batch itr (sums that differ from batch to
\* batch and from layer to layer); src names the batch the sums are of
collect_stats(p, itr, S) ==
    [l \in Layers |->
        [aaT |-> FromInt(S * (1 + ((itr + l) % 3))),
         ggT |-> FromInt(S * (1 + (itr % 2))),
         n   |-> S,
         src |-> SetToBag({itr})]]

\* update_stats adding the matrices and forgetting the count
update_statsKeepCount(s, new) ==
    [l \in Layers |->
        [aaT |-> FAdd(s[l].aaT, new[l].aaT),
         ggT |-> FAdd(s[l].ggT, new[l].ggT),
         n   |-> s[l].n,
         src |-> s[l].src (+) new[l].src]]

\* update_stats replacing the accumulated statistics by the new ones
update_statsOverwrite(s, new) == new

update_stats(s, new) ==
    [l \in Layers |->
        [aaT |-> FAdd(s[l].aaT, new[l].aaT),
         ggT |-> FAdd(s[l].ggT, new[l].ggT),
         n   |-> s[l].n + new[l].n,
         src |-> s[l].src (+) new[l].src]]

init_stats == [l \in Layers |-> [aaT |-> Zero, ggT |-> Zero, n |-> 0, src |-> EmptyBag]]

update(e, X, Xhat) == FAdd(FMul(e, X), FMul(FSub(One, e), Xhat))

update_factor_estimates(f, s, e) ==
    [l \in Layers |->
        [A |-> update(e, f[l].A, FDiv(s[l].aaT, FromInt(s[l].n))),
         G |-> update(e, f[l].G, FDiv(s[l].ggT, FromInt(s[l].n)))]]

init_factor_estimates == [l \in Layers |-> [A |-> One, G |-> One]]

inv(X, lm) == FDiv(One, FAdd(X, FMul(lm, One)))

compute_precond(f, lm) ==
    [l \in Layers |-> [Ainv |-> inv(f[l].A, lm), Ginv |-> inv(f[l].G, lm)]]

kronp(Ainv, Ginv, Wb) == FMul(Ainv, FMul(Wb, Ginv))

apply_preconditioner(pr, g) ==
    [l \in Layers |-> [Wb |-> kronp(pr[l].Ainv, pr[l].Ginv, g[l].Wb)]]

\* the collection schedule tested on i instead of i+1
SampleDueOffByOne == i % sample_period = 0
SampleDue == (i + 1) % sample_period = 0
ReestimateDue == (i + 1) % reestimate_period = 0
\* the rebuild tested against the re-estimation period
RebuildDueOnReestimate == (i + 1) % reestimate_period = 0
RebuildDue == (i + 1) % update_precond_period = 0

Event(kind, x, y, z) == [ev |-> kind, i |-> i, a |-> x, b |-> y, c |-> z]
None == <<>>

\* ------------------------------------------------------------- the state machine
Init ==
    /\ num_iters \in 0..MaxIters
    /\ num_samples \in {0, MaxSamples}
    /\ sample_period \in 1..MaxPeriod
    /\ reestimate_period \in 1..MaxPeriod
    /\ update_precond_period \in 1..MaxPeriod
    /\ eps \in EpsVals
    /\ callback \in BOOLEAN
    /\ pc = "eval"
    /\ i = 0
    /\ stats = init_stats
    /\ factors = init_factor_estimates
    /\ precond = compute_precond(init_factor_estimates, lmbda)
    /\ params = init_params
    /\ flat_params = flatten(init_params)
    /\ momentum = [l \in Layers |-> Zero]
    /\ gradient = [l \in Layers |-> [Wb |-> Zero]]
    /\ trace = <<>>

\* for i in range(num_iters): val, gradient = objective_grad(params, i)
Eval ==
    /\ pc = "eval"
    /\ i < num_iters
    /\ gradient' = objective_grad(params, i)
    /\ trace' = Append(trace, Event("eval", params, gradient', None))
    /\ pc' = "callback"
    /\ UNCHANGED <<args, i, params, flat_params, momentum, stats, factors, precond>>

\* range(num_iters) is exhausted: return params
Return ==
    /\ pc = "eval"
    /\ i >= num_iters
    /\ pc' = "done"
    /\ trace' = Append(trace, Event("return", params, None, None))
    /\ UNCHANGED <<args, i, params, flat_params, momentum, stats, factors, precond,
                   gradient>>

\* the callback given a one-based iteration number
CallbackOneBased ==
    /\ pc = "callback"
    /\ trace' = IF callback
                THEN Append(trace, Event("callback", params, i + 1, gradient))
                ELSE trace
    /\ pc' = "collect"
    /\ UNCHANGED <<args, i, params, flat_params, momentum, stats, factors, precond,
                   gradient>>

\* if callback: callback(params, i, gradient)
Callback ==
    /\ pc = "callback"
    /\ trace' = IF callback
                THEN Append(trace, Event("callback", params, i, gradient))
                ELSE trace
    /\ pc' = "collect"
    /\ UNCHANGED <<args, i, params, flat_params, momentum, stats, factors, precond,
                   gradient>>

\* if (i+1) % sample_period == 0: collect and accumulate
Collect ==
    /\ pc = "collect"
    /\ IF SampleDue
       THEN LET new_stats == collect_stats(params, i, num_samples)
            IN /\ stats' = update_stats(stats, new_stats)
               /\ trace' = Append(trace, Event("collect", new_stats, stats', None))
       ELSE UNCHANGED <<stats, trace>>
    /\ pc' = "reestimate"
    /\ UNCHANGED <<args, i, params, flat_params, momentum, factors, precond, gradient>>

\* the re-estimation without the reset of stats
ReestimateNoReset ==
    /\ pc = "reestimate"
    /\ IF ReestimateDue
       THEN /\ factors' = update_factor_estimates(factors, stats, eps)
            /\ stats' = stats
            /\ trace' = Append(trace, Event("reestimate", stats, factors', factors))
       ELSE UNCHANGED <<factors, stats, trace>>
    /\ pc' = "rebuild"
    /\ UNCHANGED <<args, i, params, flat_params, momentum, precond, gradient>>

\* if (i+1) % reestimate_period == 0: re-estimate the factors, reset the stats
Reestimate ==
    /\ pc = "reestimate"
    /\ IF ReestimateDue
       THEN /\ factors' = update_factor_estimates(factors, stats, eps)
            /\ stats' = init_stats
            /\ trace' = trace \o <<Event("reestimate", stats, factors', factors),
                                   Event("reset", stats, stats', None)>>
       ELSE UNCHANGED <<factors, stats, trace>>
    /\ pc' = "rebuild"
    /\ UNCHANGED <<args, i, params, flat_params, momentum, precond, gradient>>

\* if (i+1) % update_precond_period == 0: rebuild the preconditioner
Rebuild ==
    /\ pc = "rebuild"
    /\ IF RebuildDue
       THEN /\ precond' = compute_precond(factors, lmbda)
            /\ trace' = Append(trace, Event("rebuild", factors, precond', None))
       ELSE UNCHANGED <<precond, trace>>
    /\ pc' = "update"
    /\ UNCHANGED <<args, i, params, flat_params, momentum, stats, factors, gradient>>

\* the step taken along the old momentum
UpdateOldMomentum ==
    /\ pc = "update"
    /\ LET natgrad == flatten(apply_preconditioner(precond, gradient))
       IN /\ momentum' = [l \in Layers |->
                            FSub(FMul(mu, momentum[l]), FMul(FSub(One, mu), natgrad[l]))]
          /\ flat_params' = [l \in Layers |->
                            FAdd(flat_params[l], FMul(step_size, momentum[l]))]
          /\ params' = unflatten(flat_params')
          /\ trace' = Append(trace, Event("update", precond, natgrad,
                                          <<momentum', flat_params'>>))
    /\ i' = i + 1
    /\ pc' = "eval"
    /\ UNCHANGED <<args, stats, factors, precond, gradient>>

\* the loop left as soon as the update has produced a nan
UpdateStopsOnNaN ==
    /\ pc = "update"
    /\ LET natgrad == flatten(apply_preconditioner(precond, gradient))
       IN /\ momentum' = [l \in Layers |->
                            FSub(FMul(mu, momentum[l]), FMul(FSub(One, mu), natgrad[l]))]
          /\ flat_params' = [l \in Layers |->
                            FAdd(flat_params[l], FMul(step_size, momentum'[l]))]
          /\ params' = unflatten(flat_params')
          /\ trace' = Append(trace, Event("update", precond, natgrad,
                                          <<momentum', flat_params'>>))
    /\ i' = IF \E l \in Layers : IsNaN(momentum'[l]) THEN num_iters ELSE i + 1
    /\ pc' = "eval"
    /\ UNCHANGED <<args, stats, factors, precond, gradient>>

\* natgrad, momentum, flat_params, params; then the next iteration
Update ==
    /\ pc = "update"
    /\ LET natgrad == flatten(apply_preconditioner(precond, gradient))
       IN /\ momentum' = [l \in Layers |->
                            FSub(FMul(mu, momentum[l]), FMul(FSub(One, mu), natgrad[l]))]
          /\ flat_params' = [l \in Layers |->
                            FAdd(flat_params[l], FMul(step_size, momentum'[l]))]
          /\ params' = unflatten(flat_params')
          /\ trace' = Append(trace, Event("update", precond, natgrad,
                                          <<momentum', flat_params'>>))
    /\ i' = i + 1
    /\ pc' = "eval"
    /\ UNCHANGED <<args, stats, factors, precond, gradient>>

Next == Eval \/ Return \/ Callback \/ Collect \/ Reestimate \/ Rebuild \/ Update

Spec == Init /\ [][Next]_vars

TypeOK == pc \in {"eval", "callback", "collect", "reestimate", "rebuild", "update", "done"}
\* ------------------------------------------------------------- reading the trace
Max(S) == CHOOSE m \in S : \A x \in S : x <= m
Positions(kind) == {k \in 1..Len(trace) : trace[k].ev = kind}
Count(kind) == Cardinality(Positions(kind))
\* the position of the latest event of that kind before position k, 0 if none
LastBefore(kind, k) ==
    LET S == {j \in 1..(k - 1) : trace[j].ev = kind}
    IN IF S = {} THEN 0 ELSE Max(S)
End == Len(trace) + 1
\* the iteration an event belongs to: the number of evaluations before it
IterOf(k) == Cardinality({j \in 1..k : trace[j].ev = "eval"}) - 1
Rank(kind) ==
    CASE kind = "eval" -> 0 [] kind = "callback" -> 1 [] kind = "collect" -> 2
      [] kind = "reestimate" -> 3 [] kind = "reset" -> 4 [] kind = "rebuild" -> 5
      [] kind = "update" -> 6 [] kind = "return" -> 7
\* the iterations below n in which a schedule of that period fires
DueIters(period, n) == {it \in 0..(n - 1) : (it + 1) % period = 0}
ItersOf(kind) == {IterOf(k) : k \in Positions(kind)}

\* ------------------------------------------------------------- C1
\* C1: a run of N iterations makes exactly N div sample_period collections,
\* N div reestimate_period re-estimations and N div update_precond_period
\* rebuilds inside the loop, each exactly in the iterations it with
\* (it+1) % period = 0, and within one iteration in the order collection,
\* re-estimation, rebuild; sample_period=2, reestimate_period=4,
\* update_precond_period=4, num_iters=8 gives 4, 2 and 2.
C1_Schedule ==
    pc = "done" =>
        /\ \A k \in 1..(Len(trace) - 1) :
              IterOf(k) = IterOf(k + 1) => Rank(trace[k].ev) < Rank(trace[k + 1].ev)
        /\ Count("collect") = num_iters \div sample_period
        /\ Count("reestimate") = num_iters \div reestimate_period
        /\ Count("rebuild") = num_iters \div update_precond_period
        /\ ItersOf("collect") = DueIters(sample_period, num_iters)
        /\ ItersOf("reestimate") = DueIters(reestimate_period, num_iters)
        /\ ItersOf("rebuild") = DueIters(update_precond_period, num_iters)
        /\ (num_iters = 8 /\ sample_period = 2 /\ reestimate_period = 4
              /\ update_precond_period = 4)
           => /\ Count("collect") = 4
              /\ Count("reestimate") = 2
              /\ Count("rebuild") = 2

\* the scenario of C1 has run to its end, and its eighth iteration made all three
C1_Witness ==
    /\ pc = "done"
    /\ num_iters = 8 /\ sample_period = 2 /\ reestimate_period = 4
    /\ update_precond_period = 4
    /\ {"collect", "reestimate", "rebuild"}
          \subseteq {trace[k].ev : k \in {j \in 1..Len(trace) : IterOf(j) = 7}}

C3_Callback ==
    (callback /\ pc # "callback") =>
        /\ \A k \in Positions("eval") :
              /\ k < Len(trace)
              /\ trace[k + 1].ev = "callback"
              /\ trace[k + 1].a = trace[k].a
              /\ trace[k + 1].b = IterOf(k)
              /\ trace[k + 1].c = trace[k].b
        /\ \A k \in Positions("callback") : k > 1 /\ trace[k - 1].ev = "eval"

\* the callback has been called in an iteration after params has moved
C3_Witness ==
    /\ callback
    /\ pc = "collect"
    /\ i >= 1
    /\ trace[Len(trace)].ev = "callback"
    /\ trace[Len(trace)].a # init_params

\* ------------------------------------------------------------- C4
\* C4: when reestimate_period is a multiple of sample_period and
\* num_samples > 0, every re-estimation finds a count n > 0 in every layer.
C4_PositiveCount ==
    (reestimate_period % sample_period = 0 /\ num_samples > 0 /\ pc = "rebuild") =>
        \A k \in Positions("reestimate") : \A l \in Layers : trace[k].a[l].n > 0

\* a second re-estimation, over a window of more than one collection
C4_Witness ==
    /\ reestimate_period % sample_period = 0
    /\ reestimate_period > sample_period
    /\ num_samples > 0
    /\ pc = "rebuild"
    /\ ReestimateDue
    /\ Count("reestimate") >= 2

\* ------------------------------------------------------------- C5
\* the batches collected so far, named by the iteration of their collection
Batches == {trace[k].i : k \in Positions("collect")}
\* the re-estimations a batch was folded into
FoldsOf(b) ==
    {k \in Positions("reestimate") : \E l \in Layers : BagIn(b, trace[k].a[l].src)}
\* the iteration of the first re-estimation at or after iteration b
FirstReestimateFrom(b) ==
    b + ((reestimate_period - ((b + 1) % reestimate_period)) % reestimate_period)
Dropped(b) ==
    /\ \E k \in Positions("reset") : \E l \in Layers : BagIn(b, trace[k].a[l].src)
    /\ FoldsOf(b) = {}
DoubleCounted(b) ==
    \/ Cardinality(FoldsOf(b)) > 1
    \/ \E k \in FoldsOf(b) : \E l \in Layers : CopiesIn(b, trace[k].a[l].src) > 1
FoldedOnceAtFirst(b) ==
    /\ FoldsOf(b) = {k \in Positions("reestimate") : trace[k].i = FirstReestimateFrom(b)}
    /\ Cardinality(FoldsOf(b)) = 1
    /\ ~DoubleCounted(b)

\* the numbers of batches the re-estimations of the run were made over
WindowSizes == {BagCardinality(trace[k].a[1].src) : k \in Positions("reestimate")}
\* the run is long enough to go through every phase of the two periods
FullCycle == num_iters >= sample_period * reestimate_period

\* C5 as written: with reestimate_period a multiple of sample_period every
\* collected batch is folded into exactly one re-estimation, the first at or
\* after its collection (asked of the batches whose re-estimation the run
\* reaches); otherwise some batch is dropped or double-counted (asked of the
\* runs that go through every phase of the two periods).
C5_AsWritten ==
    (pc = "done" /\ num_samples > 0) =>
        /\ reestimate_period % sample_period = 0
              => \A b \in Batches :
                    FirstReestimateFrom(b) < num_iters => FoldedOnceAtFirst(b)
        /\ (reestimate_period % sample_period # 0 /\ FullCycle)
              => \E b \in Batches : Dropped(b) \/ DoubleCounted(b)

\* C5 (amended): whatever the periods, a collected batch is never dropped by
\* a reset and never double-counted: it is folded into exactly one
\* re-estimation, the first at or after its collection, when the run reaches
\* that iteration, and otherwise it is still held in stats when the run ends.
\* When reestimate_period is not a multiple of sample_period the
\* re-estimations are made over unequal numbers of batches instead.
C5_FoldedAtMostOnce ==
    pc = "done" =>
        /\ \A b \in Batches :
              /\ ~Dropped(b)
              /\ ~DoubleCounted(b)
              /\ IF FirstReestimateFrom(b) < num_iters
                 THEN FoldedOnceAtFirst(b)
                 ELSE /\ FoldsOf(b) = {}
                      /\ \A l \in Layers : CopiesIn(b, stats[l].src) = 1
        /\ (reestimate_period % sample_period # 0 /\ FullCycle)
              => Cardinality(WindowSizes) > 1

\* a finished run whose periods are not multiples, with windows of two batches
\* and of one batch, and a batch left over at the end
C5_Witness ==
    /\ pc = "done"
    /\ reestimate_period % sample_period # 0
    /\ FullCycle
    /\ num_samples > 0
    /\ {1, 2} \subseteq WindowSizes
    /\ \E b \in Batches : FirstReestimateFrom(b) >= num_iters

\* ------------------------------------------------------------- C6
ZeroVector == [l \in Layers |-> Zero]
\* momentum and flat_params as the latest update before position k left them
MomentumAt(k) ==
    LET u == LastBefore("update", k) IN IF u = 0 THEN ZeroVector ELSE trace[u].c[1]
FlatParamsAt(k) ==
    LET u == LastBefore("update", k)
    IN IF u = 0 THEN flatten(init_params) ELSE trace[u].c[2]

\* C6: momentum starts as the zero vector; every iteration updates it once,
\* by momentum' = mu*momentum - (1-mu)*natgrad, and then flat_params by
\* flat_params' = flat_params + step_size*momentum'; between two updates
\* neither changes, whatever collection, re-estimation or rebuild happens.
C6_Momentum ==
    /\ momentum = MomentumAt(End)
    /\ flat_params = FlatParamsAt(End)
    /\ params = unflatten(flat_params)
    /\ pc = "eval" =>
          /\ Count("update") = i
          /\ \A k \in Positions("update") :
                LET natgrad == trace[k].b
                    grad == trace[LastBefore("eval", k)].b
                IN /\ natgrad = flatten(apply_preconditioner(trace[k].a, grad))
                   /\ trace[k].c[1] =
                        [l \in Layers |->
                            FSub(FMul(mu, MomentumAt(k)[l]),
                                 FMul(FSub(One, mu), natgrad[l]))]
                   /\ trace[k].c[2] =
                        [l \in Layers |->
                            FAdd(FlatParamsAt(k)[l], FMul(step_size, trace[k].c[1][l]))]

\* the third update has been made, on a momentum that is not zero, in a run
\* that has collected, re-estimated and rebuilt
C6_Witness ==
    /\ pc = "eval"
    /\ i = 3
    /\ momentum # ZeroVector
    /\ MomentumAt(LastBefore("update", End)) # ZeroVector
    /\ Count("collect") > 0 /\ Count("reestimate") > 0 /\ Count("rebuild") > 0

\* ------------------------------------------------------------- C7
\* C7: with eps = 0, a re-estimation over counts n > 0 returns exactly
\* (aaT/n, ggT/n) in every layer, whatever the previous factors were; so in a
\* run with eps = 0 the factors after a re-estimation depend on the statistics
\* of its window alone.
C7_FreshEstimate ==
    eps = Zero =>
        \A k \in Positions("reestimate") :
            (\A l \in Layers : trace[k].a[l].n > 0) =>
                \A l \in Layers :
                    /\ trace[k].b[l].A = FDiv(trace[k].a[l].aaT, FromInt(trace[k].a[l].n))
                    /\ trace[k].b[l].G = FDiv(trace[k].a[l].ggT, FromInt(trace[k].a[l].n))

\* ------------------------------------------------------------- C8
\* C8: a re-estimation that finds a count n = 0 in some layer (one that
\* fires before the first collection of its window, num_samples being
\* positive) stops the iteration: no rebuild and no update follows it in
\* that iteration.
C8_HardStop ==
    \A k \in Positions("reestimate") :
        (num_samples > 0 /\ \E l \in Layers : trace[k].a[l].n = 0) =>
            \A j \in (k + 1)..Len(trace) :
                ~(trace[j].ev \in {"rebuild", "update"} /\ trace[j].i = trace[k].i)

\* ------------------------------------------------------------- C9
\* the value of stats the latest collection or reset before position k left
StatsAt(k) ==
    LET r == LastBefore("reset", k)
        c == LastBefore("collect", k)
    IN IF c > r THEN trace[c].b ELSE IF r > 0 THEN trace[r].b ELSE init_stats
ZeroStats(s) ==
    \A l \in Layers : s[l].aaT = Zero /\ s[l].ggT = Zero /\ s[l].n = 0

\* C9: stats changes only by additive accumulation at a collection and by
\* reset at a re-estimation: at the end of every iteration each layer's n is
\* num_samples times the number of collections since the latest
\* re-estimation, right after a re-estimation stats is init_stats (zero
\* matrices, count 0), and nothing else changes stats.
C9_Stats ==
    /\ stats = StatsAt(End)
    /\ pc = "eval" =>
          /\ \A l \in Layers :
                stats[l].n = num_samples
                    * Cardinality({k \in Positions("collect") :
                                      k > LastBefore("reestimate", End)})
          /\ \A k \in Positions("collect") :
                \A l \in Layers :
                    /\ trace[k].b[l].aaT = FAdd(StatsAt(k)[l].aaT, trace[k].a[l].aaT)
                    /\ trace[k].b[l].ggT = FAdd(StatsAt(k)[l].ggT, trace[k].a[l].ggT)
                    /\ trace[k].b[l].n = StatsAt(k)[l].n + trace[k].a[l].n
          /\ \A k \in Positions("reestimate") :
                /\ trace[k + 1].ev = "reset"
                /\ trace[k + 1].b = init_stats
                /\ ZeroStats(trace[k + 1].b)
    /\ (pc = "rebuild" /\ ReestimateDue) => stats = init_stats

\* an iteration without collection and re-estimation has ended with one
\* collection held since the latest re-estimation, in a run where some
\* collection was accumulated onto an earlier one
C9_Witness ==
    /\ pc = "eval"
    /\ num_samples > 0
    /\ Count("reestimate") > 0
    /\ stats[1].n = num_samples
    /\ \E k \in Positions("collect") : StatsAt(k)[1].n > 0
    /\ LastBefore("collect", End) < LastBefore("eval", End)
    /\ LastBefore("reset", End) < LastBefore("eval", End)

\* ------------------------------------------------------------- C10
\* the value of factors the latest re-estimation before position k left
FactorsAt(k) ==
    LET e == LastBefore("reestimate", k)
    IN IF e = 0 THEN init_factor_estimates ELSE trace[e].b
\* compute_precond of the factors as they were at the latest rebuild before k
PrecondAt(k) ==
    LET r == LastBefore("rebuild", k)
    IN IF r = 0 THEN compute_precond(init_factor_estimates, lmbda)
       ELSE compute_precond(FactorsAt(r), lmbda)

\* C10: precond changes only in iterations it with
\* (it+1) % update_precond_period = 0, a re-estimation without a rebuild
\* leaves it alone, and the precond applied in an iteration is
\* compute_precond of the factors as they were at the latest rebuild (of the
\* identity estimates before the first one); factors change only in
\* iterations it with (it+1) % reestimate_period = 0.
C10_OwnSchedule ==
    /\ precond = PrecondAt(End)
    /\ factors = FactorsAt(End)
    /\ pc = "eval" =>
          /\ \A k \in Positions("update") : trace[k].a = PrecondAt(k)
          /\ \A k \in Positions("rebuild") :
                (IterOf(k) + 1) % update_precond_period = 0
          /\ \A k \in Positions("reestimate") :
                (IterOf(k) + 1) % reestimate_period = 0

\* an update applies a preconditioner older than the current factors: a
\* re-estimation has changed factors since the latest rebuild
C10_Witness ==
    /\ pc = "update"
    /\ LastBefore("reestimate", End) > LastBefore("rebuild", End)
    /\ LastBefore("rebuild", End) > 0
    /\ precond # compute_precond(factors, lmbda)
    /\ \A l \in Layers : IsFin(factors[l].A)
====
